---- MODULE Spec2Model ----
(***************************************************************************)
(* A model of the pico-ssd1306 driver (src/ssd1306.c): the display context *)
(* ssd1306_t, the page-packed frame buffer behind dev->buff, the frames    *)
(* handed to i2c_write_blocking, and the driver's operations.              *)
(***************************************************************************)
EXTENDS Integers, Sequences, FiniteSets, TLC

VARIABLES
  dev,    \* the ssd1306_t the caller owns (src/ssd1306.h:15-24)
  buff,   \* the bytes dev->buff[0 .. buff_size-1] of the allocation
  ctrl,   \* the byte at dev->buff - 1, the slot of the control byte
  bus,    \* the payloads given to i2c_write_blocking, oldest first
  calls,  \* the driver calls made so far: [op, args, nbus (Len(bus) at entry)]
  last,   \* the last call: the context and buffer at its entry, what it returned
  snap    \* the buffer as it was before a sequence of scroll calls began

vars == <<dev, buff, ctrl, bus, calls, last, snap>>

----------------------------------------------------------------------------
(* Bounds of the model.                                                    *)

\* driver calls in one behaviour of Spec
MaxOps == 3
\* calls per direction in a scroll_row_vert round trip
MaxN == 9
\* characters of a text handed to draw_str, the terminator not counted
MaxTextLen == 2

----------------------------------------------------------------------------
(* Fixed-width integers.                                                   *)

U8(n) == n % 256
U16(n) == n % 65536
S16(n) == LET m == n % 65536 IN IF m >= 32768 THEN m - 65536 ELSE m

BitOf(b, k) == (b \div (2 ^ k)) % 2
\* b | (0x01u << k)
OrBit(b, k) == IF BitOf(b, k) = 1 THEN b ELSE b + 2 ^ k
\* b & ~(0x01u << k)
AndNotBit(b, k) == IF BitOf(b, k) = 1 THEN b - 2 ^ k ELSE b

----------------------------------------------------------------------------
(* Command opcodes, src/ssd1306.c:13-29.                                   *)

SET_CONTRAST == \h81
SET_ENTIRE_ON == \hA4
SET_NORM_INV == \hA6
SET_DISP == \hAE
SET_MEM_ADDR == \h20
SET_COL_ADDR == \h21
SET_PAGE_ADDR == \h22
SET_DISP_START_LINE == \h40
SET_SEG_REMAP == \hA0
SET_MUX_RATIO == \hA8
SET_COM_OUT_DIR == \hC0
SET_DISP_OFFSET == \hD3
SET_COM_PIN_CFG == \hDA
SET_DISP_CLK_DIV == \hD5
SET_PRECHARGE == \hD9
SET_VCOM_DESEL == \hDB
SET_CHARGE_PUMP == \h8D

----------------------------------------------------------------------------
(* The transport.  One i2c_write_blocking call is one frame: the bus       *)
(* instance and address it is sent to and its payload bytes.               *)

Frame(d, bytes) == [inst |-> d.i2c_inst, addr |-> d.i2c_addr, data |-> bytes]

\* write_command: the control byte 0x00, then the command byte.
write_command(b, d, cmd) == Append(b, Frame(d, <<\h00, cmd>>))

\* for (i = 0; i < sizeof(cmds); i++) write_command(dev, cmds[i]);
\* one write_command for each byte of cmds, in the order of cmds.
write_commands(b, d, cmds) ==
  b \o [i \in 1..Len(cmds) |-> write_command(<<>>, d, cmds[i])[1]]

\* init_commands with the supply flag read the wrong way round.
init_commands_vcc_swapped(d) ==
  << SET_DISP,
     SET_MUX_RATIO, U8(d.height - 1),
     SET_DISP_OFFSET, \h00,
     SET_DISP_START_LINE,
     SET_SEG_REMAP + \h01,
     SET_COM_OUT_DIR + \h08,
     SET_COM_PIN_CFG, (IF d.width > 2 * d.height THEN \h02 ELSE \h12),
     SET_CONTRAST, \hFF,
     SET_ENTIRE_ON,
     SET_NORM_INV,
     SET_DISP_CLK_DIV, \h80,
     SET_CHARGE_PUMP, (IF d.external_vcc THEN \h14 ELSE \h10),
     SET_PRECHARGE, (IF d.external_vcc THEN \hF1 ELSE \h22),
     SET_VCOM_DESEL, \h30,
     SET_MEM_ADDR, \h00,
     SET_DISP + \h01 >>

init_commands(d) ==
  << SET_DISP,
     SET_MUX_RATIO, U8(d.height - 1),
     SET_DISP_OFFSET, \h00,
     SET_DISP_START_LINE,
     SET_SEG_REMAP + \h01,
     SET_COM_OUT_DIR + \h08,
     SET_COM_PIN_CFG, (IF d.width > 2 * d.height THEN \h02 ELSE \h12),
     SET_CONTRAST, \hFF,
     SET_ENTIRE_ON,
     SET_NORM_INV,
     SET_DISP_CLK_DIV, \h80,
     SET_CHARGE_PUMP, (IF d.external_vcc THEN \h10 ELSE \h14),
     SET_PRECHARGE, (IF d.external_vcc THEN \h22 ELSE \hF1),
     SET_VCOM_DESEL, \h30,
     SET_MEM_ADDR, \h00,
     SET_DISP + \h01 >>

run_init_commands(b, d) == write_commands(b, d, init_commands(d))

ssd1306_scroll_horiz_stop(b, d) == write_command(b, d, \h2E)

\* show_commands with the window one column too wide.
show_commands_off_by_one(d) ==
  << SET_COL_ADDR, \h00, U8(d.width),
     SET_PAGE_ADDR, \h00, U8(d.pages - 1) >>

\* The six address-window bytes of ssd1306_show, stored as uint8_t.
show_commands(d) ==
  << SET_COL_ADDR, \h00, U8(d.width - 1),
     SET_PAGE_ADDR, \h00, U8(d.pages - 1) >>

\* dev->buff[0 .. buff_size-1] as a sequence of bytes.
BuffBytes(d, m) == [i \in 1..d.buff_size |-> m[i - 1]]

\* ssd1306_show: the window commands, then the control slot set to 0x40 and
\* sent with the buffer behind it in one write of buff_size + 1 bytes.
ssd1306_show(b, d, m) ==
  Append(write_commands(b, d, show_commands(d)),
         Frame(d, <<\h40>> \o BuffBytes(d, m)))

\* ssd1306_scroll_horiz that starts the new scroll without stopping first.
ssd1306_scroll_horiz_no_stop(b, d, right, start_page, end_page, speed) ==
  LET b1 == write_command(b, d, IF right THEN \h26 ELSE \h27)
      b2 == write_command(b1, d, \h00)
      b3 == write_command(b2, d, start_page % 8)
      b4 == write_command(b3, d, 0 * speed)
      b5 == write_command(b4, d, end_page % 8)
      b6 == write_command(b5, d, \h00)
      b7 == write_command(b6, d, \hFF)
  IN write_command(b7, d, \h2F)

\* ssd1306_scroll_horiz that sends the low three bits of speed as the
\* interval byte.
ssd1306_scroll_horiz_with_speed(b, d, right, start_page, end_page, speed) ==
  LET b0 == ssd1306_scroll_horiz_stop(b, d)
      b1 == write_command(b0, d, IF right THEN \h26 ELSE \h27)
      b2 == write_command(b1, d, \h00)
      b3 == write_command(b2, d, start_page % 8)
      b4 == write_command(b3, d, speed % 8)
      b5 == write_command(b4, d, end_page % 8)
      b6 == write_command(b5, d, \h00)
      b7 == write_command(b6, d, \hFF)
  IN write_command(b7, d, \h2F)

\* ssd1306_scroll_horiz: stop, then the start sequence.
ssd1306_scroll_horiz(b, d, right, start_page, end_page, speed) ==
  LET b0 == ssd1306_scroll_horiz_stop(b, d)
      b1 == write_command(b0, d, IF right THEN \h26 ELSE \h27)
      b2 == write_command(b1, d, \h00)
      b3 == write_command(b2, d, start_page % 8)
      \* speed & 0x00
      b4 == write_command(b3, d, 0 * speed)
      b5 == write_command(b4, d, end_page % 8)
      b6 == write_command(b5, d, \h00)
      b7 == write_command(b6, d, \hFF)
  IN write_command(b7, d, \h2F)

----------------------------------------------------------------------------
(* The frame buffer.                                                       *)

\* draw_pixel that takes the column one past the last for a column.
draw_pixel_off_by_one(d, m, x, y, color) ==
  IF x <= d.width /\ y < d.height
  THEN LET idx == x + d.width * (y \div 8) IN
       [m EXCEPT ![idx] = IF color THEN OrBit(@, y % 8) ELSE AndNotBit(@, y % 8)]
  ELSE m

\* draw_pixel: x and y are uint16_t.
draw_pixel(d, m, x, y, color) ==
  IF x < d.width /\ y < d.height
  THEN LET idx == x + d.width * (y \div 8) IN
       [m EXCEPT ![idx] = IF color THEN OrBit(@, y % 8) ELSE AndNotBit(@, y % 8)]
  ELSE m

\* memset(dev->buff, 0, dev->buff_size)
ssd1306_clear(d, m) == [i \in 0..(d.buff_size - 1) |-> 0]

\* fill_rect, the inner loop: for (j = y; j < y_end; ++j) draw_pixel(i, j).
\* st holds the buffer m and the loop variables i and j.
RECURSIVE fill_rect_rows(_, _, _, _)
fill_rect_rows(d, st, y_end, color) ==
  IF st.j < y_end
  THEN fill_rect_rows(d, [m |-> draw_pixel(d, st.m, st.i, st.j, color),
                          i |-> st.i, j |-> U16(st.j + 1)],
                      y_end, color)
  ELSE st

\* fill_rect, the outer loop: for (i = x; i < x_end; ++i)
RECURSIVE fill_rect_cols(_, _, _, _, _, _)
fill_rect_cols(d, st, x_end, y, y_end, color) ==
  IF st.i < x_end
  THEN fill_rect_cols(d, [m |-> fill_rect_rows(d, [m |-> st.m, i |-> st.i, j |-> y],
                                               y_end, color).m,
                          i |-> U16(st.i + 1)],
                      x_end, y, y_end, color)
  ELSE st

\* fill_rect: x_in, y_in are int16_t, width and height uint16_t; the origin
\* and the end are held in uint16_t.
fill_rect(d, m, x_in, y_in, width, height, color) ==
  LET x == IF x_in < 0 THEN 0 ELSE x_in
      y == IF y_in < 0 THEN 0 ELSE y_in
      x_sum == U16(x + width)
      y_sum == U16(y + height)
      x_end == IF x_sum > d.width THEN d.width ELSE x_sum
      y_end == IF y_sum > d.height THEN d.height ELSE y_sum
  IN fill_rect_cols(d, [m |-> m, i |-> x], x_end, y, y_end, color).m

\* ssd1306_draw_line, the loop taken when dy < dx.  st holds the buffer m,
\* the running x1, y1, the error term D and the number n of iterations made.
RECURSIVE draw_line_by_x(_, _, _, _, _, _, _)
draw_line_by_x(d, st, x2, dx, dy, step_x, step_y) ==
  IF st.x1 # x2
  THEN LET x1 == U16(st.x1 + step_x)
           up == st.D >= 0
           y1 == IF up THEN U16(st.y1 + step_y) ELSE st.y1
           D1 == IF up THEN S16(st.D - 2 * dx) ELSE st.D
           D2 == S16(D1 + 2 * dy)
       IN draw_line_by_x(d, [m |-> draw_pixel(d, st.m, x1, y1, TRUE),
                             x1 |-> x1, y1 |-> y1, D |-> D2, n |-> st.n + 1],
                         x2, dx, dy, step_x, step_y)
  ELSE st

\* ssd1306_draw_line, the loop taken otherwise.
RECURSIVE draw_line_by_y(_, _, _, _, _, _, _)
draw_line_by_y(d, st, y2, dx, dy, step_x, step_y) ==
  IF st.y1 # y2
  THEN LET y1 == U16(st.y1 + step_y)
           over == st.D <= 0
           x1 == IF over THEN U16(st.x1 + step_x) ELSE st.x1
           D1 == IF over THEN S16(st.D + 2 * dy) ELSE st.D
           D2 == S16(D1 - 2 * dx)
       IN draw_line_by_y(d, [m |-> draw_pixel(d, st.m, x1, y1, TRUE),
                             x1 |-> x1, y1 |-> y1, D |-> D2, n |-> st.n + 1],
                         y2, dx, dy, step_x, step_y)
  ELSE st

\* ssd1306_draw_line that takes dy as it is, without the sign flip.
draw_line_no_abs_dy(d, m, x1, y1, x2, y2) ==
  LET dx0 == S16(x2 - x1)
      dy == S16(y2 - y1)
      dx == IF dx0 < 0 THEN S16(-dx0) ELSE dx0
      step_x == IF dx0 < 0 THEN -1 ELSE 1
      step_y == 1
      m0 == draw_pixel(d, m, x1, y1, TRUE)
  IN IF dy < dx
     THEN draw_line_by_x(d, [m |-> m0, x1 |-> x1, y1 |-> y1,
                             D |-> S16(dy * 2 - dx), n |-> 0],
                         x2, dx, dy, step_x, step_y)
     ELSE draw_line_by_y(d, [m |-> m0, x1 |-> x1, y1 |-> y1,
                             D |-> S16(dy - dx * 2), n |-> 0],
                         y2, dx, dy, step_x, step_y)

\* ssd1306_draw_line that does not plot the starting pixel.
draw_line_no_start(d, m, x1, y1, x2, y2) ==
  LET dx0 == S16(x2 - x1)
      dy0 == S16(y2 - y1)
      dx == IF dx0 < 0 THEN S16(-dx0) ELSE dx0
      dy == IF dy0 < 0 THEN S16(-dy0) ELSE dy0
      step_x == IF dx0 < 0 THEN -1 ELSE 1
      step_y == IF dy0 < 0 THEN -1 ELSE 1
  IN IF dy < dx
     THEN draw_line_by_x(d, [m |-> m, x1 |-> x1, y1 |-> y1,
                             D |-> S16(dy * 2 - dx), n |-> 0],
                         x2, dx, dy, step_x, step_y)
     ELSE draw_line_by_y(d, [m |-> m, x1 |-> x1, y1 |-> y1,
                             D |-> S16(dy - dx * 2), n |-> 0],
                         y2, dx, dy, step_x, step_y)

\* ssd1306_draw_line: x1, y1, x2, y2 are uint16_t; D, dx, dy and the steps
\* int16_t.  The result is the state the loop ends in.
ssd1306_draw_line(d, m, x1, y1, x2, y2) ==
  LET dx0 == S16(x2 - x1)
      dy0 == S16(y2 - y1)
      dx == IF dx0 < 0 THEN S16(-dx0) ELSE dx0
      dy == IF dy0 < 0 THEN S16(-dy0) ELSE dy0
      step_x == IF dx0 < 0 THEN -1 ELSE 1
      step_y == IF dy0 < 0 THEN -1 ELSE 1
      m0 == draw_pixel(d, m, x1, y1, TRUE)
  IN IF dy < dx
     THEN draw_line_by_x(d, [m |-> m0, x1 |-> x1, y1 |-> y1,
                             D |-> S16(dy * 2 - dx), n |-> 0],
                         x2, dx, dy, step_x, step_y)
     ELSE draw_line_by_y(d, [m |-> m0, x1 |-> x1, y1 |-> y1,
                             D |-> S16(dy - dx * 2), n |-> 0],
                         y2, dx, dy, step_x, step_y)

\* ssd1306_scroll_row_vert, down: one column, pages 0 .. pages-1.  st holds
\* the buffer m, the carry and the loop variable page.
RECURSIVE scroll_col_down(_, _, _, _)
scroll_col_down(st, width, pages, col) ==
  IF st.page < pages
  THEN LET idx == U16(st.page * width + col)
           byte == st.m[idx]
       IN scroll_col_down([m |-> [st.m EXCEPT ![idx] = U8(byte * 2) + st.carry],
                           carry |-> IF byte >= 128 THEN 1 ELSE 0,
                           page |-> st.page + 1],
                          width, pages, col)
  ELSE st

\* ssd1306_scroll_row_vert, up: one column, pages pages-1 .. 0.
RECURSIVE scroll_col_up(_, _, _)
scroll_col_up(st, width, col) ==
  IF st.page >= 0
  THEN LET idx == U16(U16(st.page) * width + col)
           byte == st.m[idx]
       IN scroll_col_up([m |-> [st.m EXCEPT ![idx] = (byte \div 2) + st.carry],
                         carry |-> IF byte % 2 = 1 THEN 128 ELSE 0,
                         page |-> st.page - 1],
                        width, col)
  ELSE st

\* One column of ssd1306_scroll_row_vert with the wrap-around write left out.
scroll_col_no_wrap(m, width, pages, col, down) ==
  IF down
  THEN scroll_col_down([m |-> m, carry |-> 0, page |-> 0], width, pages, col).m
  ELSE scroll_col_up([m |-> m, carry |-> 0, page |-> pages - 1], width, col).m

\* ssd1306_scroll_row_vert, the body of the loop over the columns.
scroll_col(m, width, pages, col, down) ==
  IF down
  THEN LET st == scroll_col_down([m |-> m, carry |-> 0, page |-> 0], width, pages, col)
       IN [st.m EXCEPT ![col] = (@ - (@ % 2)) + st.carry]
  ELSE LET st == scroll_col_up([m |-> m, carry |-> 0, page |-> pages - 1], width, col)
           last_idx == U16((pages - 1) * width + col)
       IN [st.m EXCEPT ![last_idx] = (@ % 128) + st.carry]

\* ssd1306_scroll_row_vert: for (col = 0; col < width; ++col).  st holds the
\* buffer m and the loop variable col.
RECURSIVE scroll_cols(_, _, _, _)
scroll_cols(st, width, pages, down) ==
  IF st.col < width
  THEN scroll_cols([m |-> scroll_col(st.m, width, pages, st.col, down),
                    col |-> st.col + 1],
                   width, pages, down)
  ELSE st

ssd1306_scroll_row_vert(d, m, down) ==
  scroll_cols([m |-> m, col |-> 0], d.width, d.height \div 8, down).m

\* draw_char, the inner loop: bit j of the column byte goes to row y + j.
\* st holds the buffer m, what is left of line and the loop variable j.
RECURSIVE draw_char_rows(_, _, _, _, _)
draw_char_rows(d, st, xi, y, height) ==
  IF st.j < height
  THEN draw_char_rows(d, [m |-> draw_pixel(d, st.m, xi, U16(y + st.j), st.line % 2 = 1),
                          line |-> st.line \div 2, j |-> st.j + 1],
                      xi, y, height)
  ELSE st

\* draw_char, the outer loop over the glyph's columns.  st holds the buffer m
\* and the loop variable i.
RECURSIVE draw_char_cols(_, _, _, _, _, _)
draw_char_cols(d, st, x, y, ch, font) ==
  IF st.i < font.width
  THEN LET line == font.data[(ch - font.first) * font.width + st.i]
       IN draw_char_cols(d, [m |-> draw_char_rows(d, [m |-> st.m, line |-> line, j |-> 0],
                                                  U16(x + st.i), y, font.height).m,
                             i |-> st.i + 1],
                         x, y, ch, font)
  ELSE st

\* draw_char: x and y are uint16_t; ch is *chr, a char of the Pico build
\* (unsigned).
draw_char(d, m, x, y, ch, font) ==
  draw_char_cols(d, [m |-> m, i |-> 0], x, y, ch, font).m

\* The char at str[p]; mem is the memory from str on, mem[1] being str[0].
CharAt(mem, p) == mem[p + 1]

\* ssd1306_draw_str, the do-while loop.  st holds the buffer m, the cursor x
\* (an int), the index p of *str and the highest index hi read so far.
RECURSIVE draw_str_loop(_, _, _, _, _)
draw_str_loop(d, st, y, mem, font) ==
  LET lastc == U8(font.first + font.count)
      ch == CharAt(mem, st.p)
      skip == ch < font.first \/ ch >= lastc
      m1 == IF skip THEN st.m ELSE draw_char(d, st.m, U16(st.x), U16(y), ch, font)
      st1 == [m |-> m1, x |-> st.x + font.width, p |-> st.p + 1, hi |-> st.p + 1]
  IN IF CharAt(mem, st.p + 1) # 0 THEN draw_str_loop(d, st1, y, mem, font) ELSE st1

\* ssd1306_draw_str: x and y are int.  The result is the state the loop ends
\* in.
ssd1306_draw_str(d, m, x, y, mem, font) ==
  draw_str_loop(d, [m |-> m, x |-> x, p |-> 0, hi |-> 0], y, mem, font)

\* The bit ssd1306_draw_image reads for source pixel (i, j): byte
\* (i + j*width) / 8 of the data, bit 7 - (i % 8).
image_pixel_on(image, i, j) ==
  BitOf(image.data[(i + j * image.width) \div 8], 7 - (i % 8)) = 1

\* ssd1306_draw_image, the inner loop over the columns of row j.  st holds
\* the buffer m and the loop variable i.
RECURSIVE draw_image_cols(_, _, _, _, _, _)
draw_image_cols(d, st, x, y, j, image) ==
  IF st.i < image.width
  THEN draw_image_cols(d, [m |-> draw_pixel(d, st.m, U16(x + st.i), U16(y + j),
                                            image_pixel_on(image, st.i, j)),
                           i |-> U16(st.i + 1)],
                       x, y, j, image)
  ELSE st

\* ssd1306_draw_image, the outer loop over the rows.  st holds the buffer m
\* and the loop variable j.
RECURSIVE draw_image_rows(_, _, _, _, _)
draw_image_rows(d, st, x, y, image) ==
  IF st.j < image.height
  THEN draw_image_rows(d, [m |-> draw_image_cols(d, [m |-> st.m, i |-> 0],
                                                 x, y, st.j, image).m,
                           j |-> U16(st.j + 1)],
                       x, y, image)
  ELSE st

\* ssd1306_draw_image that reads the bits of a byte from the low end.
draw_image_lsb_first(d, m, x, y, image) ==
  LET flip(b) == [k \in 0..7 |-> BitOf(b, 7 - k)]
      bits(b) == flip(b)[0] + 2 * flip(b)[1] + 4 * flip(b)[2] + 8 * flip(b)[3]
                 + 16 * flip(b)[4] + 32 * flip(b)[5] + 64 * flip(b)[6]
                 + 128 * flip(b)[7]
      turned == [image EXCEPT !.data = [k \in DOMAIN image.data |-> bits(image.data[k])]]
  IN draw_image_rows(d, [m |-> m, j |-> 0], x, y, turned).m

\* ssd1306_draw_image: x and y are uint16_t.
ssd1306_draw_image(d, m, x, y, image) ==
  draw_image_rows(d, [m |-> m, j |-> 0], x, y, image).m

----------------------------------------------------------------------------
(* The display context.                                                    *)

\* `static ssd1306_t display;` before ssd1306_init: zero-initialised storage.
Dev0 ==
  [width |-> 0, height |-> 0, pages |-> 0, i2c_addr |-> 0, i2c_inst |-> "NULL",
   external_vcc |-> FALSE, buff |-> "NULL", buff_size |-> 0]

\* ssd1306_init, the assignments made before the allocation is attempted.
ssd1306_init_fields(d, width, height, i2c_addr, i2c_inst, external_vcc) ==
  [d EXCEPT !.width = width, !.height = height, !.pages = height \div 8,
            !.i2c_addr = i2c_addr, !.i2c_inst = i2c_inst,
            !.external_vcc = external_vcc,
            !.buff_size = width * (height \div 8)]

\* ssd1306_init, the context it leaves: dev->buff is NULL when malloc failed,
\* else it points one byte into the allocation.
ssd1306_init_dev(d, width, height, i2c_addr, i2c_inst, external_vcc, ok) ==
  [ssd1306_init_fields(d, width, height, i2c_addr, i2c_inst, external_vcc)
     EXCEPT !.buff = IF ok THEN "heap" ELSE "NULL"]

\* ssd1306_init, what it sends: nothing when malloc failed, else the bring-up
\* commands and the scroll stop.
ssd1306_init_bus(b, d, ok) ==
  IF ok THEN ssd1306_scroll_horiz_stop(run_init_commands(b, d), d) ELSE b

\* What malloc returns is not initialised: the bytes are whatever the heap
\* held.  The model draws them from a family of patterns.
HeapBytes(size, v) == [i \in 0..(size - 1) |-> U8(v + 37 * i)]

----------------------------------------------------------------------------
(* Inputs of the driver state machine.                                     *)

Dims == {<<3, 16>>, <<20, 8>>, <<128, 64>>}
Addrs == {\h3C}
HeapSeeds == {\h00, \hA5}
Bytes == {\h26, \hFF}

Log(op, args, ret) ==
  /\ calls' = Append(calls, [op |-> op, args |-> args, nbus |-> Len(bus)])
  /\ last' = [dev |-> dev, buff |-> buff, ret |-> ret]

\* The caller's contract: operations other than init need a context that a
\* successful init has set up.
Initialized == Len(calls) < MaxOps /\ dev.buff = "heap"

Init ==
  /\ dev = Dev0
  /\ buff = <<>>
  /\ ctrl = 0
  /\ bus = <<>>
  /\ calls = <<>>
  /\ last = [dev |-> Dev0, buff |-> <<>>, ret |-> "none"]
  /\ snap = <<>>

\* bool ssd1306_init(dev, width, height, i2c_addr, i2c_inst, external_vcc)
DoInit(width, height, i2c_addr, i2c_inst, external_vcc, ok, seed) ==
  /\ Len(calls) < MaxOps
  /\ dev.buff = "NULL"
  /\ dev' = ssd1306_init_dev(dev, width, height, i2c_addr, i2c_inst, external_vcc, ok)
  /\ bus' = ssd1306_init_bus(bus, dev', ok)
  /\ buff' = IF ok THEN HeapBytes(dev'.buff_size, seed) ELSE <<>>
  /\ ctrl' = IF ok THEN U8(seed + 1) ELSE ctrl
  /\ Log("init", <<width, height, i2c_addr, i2c_inst, external_vcc>>, ok)
  /\ UNCHANGED snap

\* void ssd1306_deinit(dev)
DoDeinit ==
  /\ Initialized
  /\ dev' = [dev EXCEPT !.buff = "NULL"]
  /\ buff' = <<>>
  /\ ctrl' = 0
  /\ Log("deinit", <<>>, "void")
  /\ UNCHANGED <<bus, snap>>

DoPowerOff ==
  /\ Initialized
  /\ bus' = write_command(bus, dev, SET_DISP)
  /\ Log("power_off", <<>>, "void")
  /\ UNCHANGED <<dev, buff, ctrl, snap>>

DoPowerOn ==
  /\ Initialized
  /\ bus' = write_command(bus, dev, SET_DISP + \h01)
  /\ Log("power_on", <<>>, "void")
  /\ UNCHANGED <<dev, buff, ctrl, snap>>

DoClear ==
  /\ Initialized
  /\ buff' = ssd1306_clear(dev, buff)
  /\ Log("clear", <<>>, "void")
  /\ UNCHANGED <<dev, ctrl, bus, snap>>

\* write_command(dev, SET_NORM_INV | (inv & 1))
DoInvert(inv) ==
  /\ Initialized
  /\ bus' = write_command(bus, dev, SET_NORM_INV + (inv % 2))
  /\ Log("invert", <<inv>>, "void")
  /\ UNCHANGED <<dev, buff, ctrl, snap>>

DoShow ==
  /\ Initialized
  /\ ctrl' = \h40
  /\ bus' = ssd1306_show(bus, dev, buff)
  /\ Log("show", <<>>, "void")
  /\ UNCHANGED <<dev, buff, snap>>

DoContrast(val) ==
  /\ Initialized
  /\ bus' = write_command(write_command(bus, dev, SET_CONTRAST), dev, val)
  /\ Log("contrast", <<val>>, "void")
  /\ UNCHANGED <<dev, buff, ctrl, snap>>

\* ssd1306_draw_pixel (color 1) and ssd1306_clear_pixel (color 0)
DoPixel(x, y, color) ==
  /\ Initialized
  /\ buff' = draw_pixel(dev, buff, x, y, color)
  /\ Log(IF color THEN "draw_pixel" ELSE "clear_pixel", <<x, y>>, "void")
  /\ UNCHANGED <<dev, ctrl, bus, snap>>

DoScrollHoriz(right, start_page, end_page, speed) ==
  /\ Initialized
  /\ bus' = ssd1306_scroll_horiz(bus, dev, right, start_page, end_page, speed)
  /\ Log("scroll_horiz", <<right, start_page, end_page, speed>>, "void")
  /\ UNCHANGED <<dev, buff, ctrl, snap>>

DoScrollHorizStop ==
  /\ Initialized
  /\ bus' = ssd1306_scroll_horiz_stop(bus, dev)
  /\ Log("scroll_horiz_stop", <<>>, "void")
  /\ UNCHANGED <<dev, buff, ctrl, snap>>

\* void ssd1306_draw_line(dev, x1, y1, x2, y2)
DoLine(x1, y1, x2, y2) ==
  /\ Initialized
  /\ LET r == ssd1306_draw_line(dev, buff, x1, y1, x2, y2) IN
       /\ buff' = r.m
       /\ Log("draw_line", <<x1, y1, x2, y2>>, [x1 |-> r.x1, y1 |-> r.y1, n |-> r.n])
  /\ UNCHANGED <<dev, ctrl, bus, snap>>

\* ssd1306_fill_rect (color 1) and ssd1306_clear_rect (color 0)
DoRect(x, y, width, height, color) ==
  /\ Initialized
  /\ buff' = fill_rect(dev, buff, x, y, width, height, color)
  /\ Log(IF color THEN "fill_rect" ELSE "clear_rect", <<x, y, width, height>>, "void")
  /\ UNCHANGED <<dev, ctrl, bus, snap>>

\* void ssd1306_draw_str(dev, x, y, str, font): str points at text, its
\* terminator and whatever memory follows it (tail).
DoStr(x, y, text, tail, font) ==
  /\ Initialized
  /\ LET r == ssd1306_draw_str(dev, buff, x, y, text \o <<0>> \o tail, font) IN
       /\ buff' = r.m
       /\ Log("draw_str", <<x, y, text, font>>, [x |-> r.x, hi |-> r.hi])
  /\ UNCHANGED <<dev, ctrl, bus, snap>>

\* void ssd1306_draw_image(dev, x, y, image)
DoImage(x, y, image) ==
  /\ Initialized
  /\ buff' = ssd1306_draw_image(dev, buff, x, y, image)
  /\ Log("draw_image", <<x, y, image>>, "void")
  /\ UNCHANGED <<dev, ctrl, bus, snap>>

\* void ssd1306_scroll_row_vert(dev, down)
ScrollRowVert(down) ==
  /\ dev.buff = "heap"
  /\ buff' = ssd1306_scroll_row_vert(dev, buff, down)
  /\ Log("scroll_row_vert", <<down>>, "void")
  /\ UNCHANGED <<dev, ctrl, bus, snap>>

DoScrollRowVert(down) == Len(calls) < MaxOps /\ ScrollRowVert(down)

\* Fonts in the shape of ssd1306_font_t: one byte per glyph column.
\* Two glyphs, 'A' and 'B', two columns each.
FontAB ==
  [width |-> 2, height |-> 8, first |-> 65, count |-> 2,
   data |-> [k \in 0..3 |-> <<\hFF, \h81, \h3C, \h01>>[k + 1]]]
\* An 8x8 font for the codes 32 .. 126.
Font8x8 ==
  [width |-> 8, height |-> 8, first |-> 32, count |-> 95,
   data |-> [k \in 0..(95 * 8 - 1) |-> U8(29 * k + 3)]]
\* A 3x5 font for the codes 32 .. 255.
FontHigh ==
  [width |-> 3, height |-> 5, first |-> 32, count |-> 224,
   data |-> [k \in 0..(224 * 3 - 1) |-> U8(53 * k + 1)]]

\* Images in the shape of ssd1306_image_t: the rows one after the other,
\* eight pixels to a byte, the first pixel in bit 7.
\* Three columns, two rows.
Image3x2 ==
  [width |-> 3, height |-> 2, length |-> 1, data |-> [k \in 0..0 |-> \hB4]]
\* One byte to a row.
Image8x3 ==
  [width |-> 8, height |-> 3, length |-> 3,
   data |-> [k \in 0..2 |-> <<\h81, \h5A, \hFF>>[k + 1]]]
\* Rows that do not start on a byte.
Image10x4 ==
  [width |-> 10, height |-> 4, length |-> 5,
   data |-> [k \in 0..4 |-> <<\hC3, \h3C, \hA5, \h0F, \h96>>[k + 1]]]
\* Taller than any of the panels it is drawn on.
Image2x20 ==
  [width |-> 2, height |-> 20, length |-> 5,
   data |-> [k \in 0..4 |-> <<\h9C, \h6B, \h27, \hD1, \h4E>>[k + 1]]]

\* Pixel coordinates the state machine tries: two corners and one outside.
\* It scrolls only the panels of up to 20 columns: the loop over the
\* columns is a recursion, one level for each column.
EdgeXY == {<<0, 0>>, <<dev.width - 1, dev.height - 1>>, <<dev.width, 0>>}

Next ==
  \/ \E wh \in Dims, a \in Addrs, e \in BOOLEAN, ok \in BOOLEAN, s \in HeapSeeds :
       DoInit(wh[1], wh[2], a, "i2c1", e, ok, s)
  \/ DoDeinit
  \/ DoPowerOff
  \/ DoPowerOn
  \/ DoClear
  \/ \E inv \in {0, 1, 2} : DoInvert(inv)
  \/ DoShow
  \/ \E val \in Bytes : DoContrast(val)
  \/ \E xy \in EdgeXY, c \in BOOLEAN : DoPixel(xy[1], xy[2], c)
  \/ \E r \in BOOLEAN, pp \in {<<0, 7>>, <<9, 10>>}, v \in {0, 7} :
       DoScrollHoriz(r, pp[1], pp[2], v)
  \/ DoScrollHorizStop
  \/ \E down \in BOOLEAN : dev.width <= 20 /\ DoScrollRowVert(down)
  \/ DoLine(0, 0, 2, 7)
  \/ \E c \in BOOLEAN : DoRect(-1, 1, 3, 3, c)
  \/ DoStr(1, 1, <<65>>, <<0>>, FontAB)

Spec == Init /\ [][Next]_vars

----------------------------------------------------------------------------
(* One drawing call on a buffer of any content.  The state it starts from  *)
(* is the state after a successful init: malloc does not clear what it     *)
(* returns, so the buffer may hold any bytes.                              *)

Ready(wh, m, s) ==
  /\ dev = ssd1306_init_dev(Dev0, wh[1], wh[2], \h3C, "i2c1", FALSE, TRUE)
  /\ buff = m
  /\ ctrl = 0
  /\ bus = ssd1306_init_bus(<<>>, dev, TRUE)
  /\ calls = << [op |-> "init", args |-> <<wh[1], wh[2], \h3C, "i2c1", FALSE>>,
                 nbus |-> 0] >>
  /\ last = [dev |-> Dev0, buff |-> <<>>, ret |-> TRUE]
  /\ snap = s

RasterDims == {<<5, 8>>, <<4, 16>>, <<24, 16>>}
RasterBuffers(size) ==
  {[i \in 0..(size - 1) |-> \h00], [i \in 0..(size - 1) |-> \hFF],
   HeapBytes(size, \hA5)}

RasterInit ==
  \E wh \in RasterDims :
    \E m \in RasterBuffers(wh[1] * (wh[2] \div 8)) : Ready(wh, m, <<>>)

\* Pixel coordinates: every one inside, two past each edge, and the largest
\* uint16_t.
PixelXs == 0..(dev.width + 1) \cup {65535}
PixelYs == 0..(dev.height + 1) \cup {65535}

\* Line end points: every pixel of the small panels, a grid of the large one.
LinePoints ==
  IF dev.width * dev.height <= 64
  THEN (0..(dev.width - 1)) \X (0..(dev.height - 1))
  ELSE {0, 2, dev.width \div 2, dev.width - 1} \X
       {0, 1, dev.height \div 2, dev.height - 1}

\* Rectangles: origins left of, above, inside and at the far edge of the
\* panel; extents from nothing to past the panel.
RectXs == {-2, -1, 0, 1, dev.width - 1, dev.width}
RectYs == {-1, 0, 1, 9, dev.height - 1}
RectWs == {0, 1, 2, 4, dev.width, dev.width + 2}
RectHs == {0, 1, 3, dev.height, dev.height + 1}

\* Texts: codes below, inside and above the fonts' ranges.
Chars == {64, 65, 66, 200}
Texts == UNION {[1..n -> Chars] : n \in 0..MaxTextLen}
\* What lies behind a text's terminator.
Tails == {<<0>>, <<66, 0>>}
Fonts == {FontAB, Font8x8, FontHigh}
StrXYs == {<<5, 5>>, <<-1, 0>>, <<0, 9>>, <<3, -2>>}

RasterPixel ==
  /\ Len(calls) = 1
  /\ \E x \in PixelXs, y \in PixelYs, c \in BOOLEAN : DoPixel(x, y, c)

RasterLine ==
  /\ Len(calls) = 1
  /\ \E p \in LinePoints, q \in LinePoints : DoLine(p[1], p[2], q[1], q[2])

RasterRect ==
  /\ Len(calls) = 1
  /\ \E x \in RectXs, y \in RectYs, w \in RectWs, h \in RectHs, c \in BOOLEAN :
       DoRect(x, y, w, h, c)

RasterStr ==
  /\ Len(calls) = 1
  /\ \E xy \in StrXYs, text \in Texts, tail \in Tails, font \in Fonts :
       DoStr(xy[1], xy[2], text, tail, font)

\* Images at the origin, inside, at the far edges and at offsets that are
\* negative numbers passed as uint16_t.
Images == {Image3x2, Image8x3, Image10x4, Image2x20}
ImageXs == {0, 1, dev.width - 1, dev.width, 65535}
ImageYs == {0, 3, dev.height - 1, 65535, 65533, 65524}

RasterImage ==
  /\ Len(calls) = 1
  /\ \E x \in ImageXs, y \in ImageYs, image \in Images : DoImage(x, y, image)

RasterNext == RasterPixel \/ RasterLine \/ RasterRect \/ RasterStr \/ RasterImage

SpecRaster == RasterInit /\ [][RasterNext]_vars

----------------------------------------------------------------------------
(* N calls of scroll_row_vert one way, then N calls the other way, on a    *)
(* buffer of any content.                                                  *)

ScrollDims == {<<2, 8>>, <<2, 16>>, <<1, 24>>}
ScrollBytes == {\h00, \h01, \h80, \hA5}

ScrollInit ==
  \E wh \in ScrollDims :
    \E m \in [0..(wh[1] * (wh[2] \div 8) - 1) -> ScrollBytes] : Ready(wh, m, m)

\* The calls made one way and the calls made back.
NFwd == Cardinality({i \in 2..Len(calls) : calls[i].args = calls[2].args})
NBack == Cardinality({i \in 2..Len(calls) : calls[i].args # calls[2].args})

ScrollFwd ==
  \E down \in BOOLEAN :
    /\ NBack = 0
    /\ Len(calls) > 1 => calls[2].args = <<down>>
    /\ NFwd < MaxN
    /\ ScrollRowVert(down)

ScrollBack ==
  /\ Len(calls) > 1
  /\ NBack < NFwd
  /\ ScrollRowVert(~calls[2].args[1])

ScrollNext == ScrollFwd \/ ScrollBack

SpecScroll == ScrollInit /\ [][ScrollNext]_vars

----------------------------------------------------------------------------
(* What the last call put on the transport.                                *)

LastCall == calls[Len(calls)]
LastFrames == SubSeq(bus, LastCall.nbus + 1, Len(bus))
\* The frames call number i put on the transport: positions of bus.
FramesOf(i) ==
  (calls[i].nbus + 1) .. (IF i < Len(calls) THEN calls[i + 1].nbus ELSE Len(bus))
IsCommandFrame(f, byte) == f.data = <<\h00, byte>>

CommandBytes(frames) == [i \in 1..Len(frames) |-> frames[i].data[2]]
AllCommandFrames(frames) ==
  \A i \in 1..Len(frames) : Len(frames[i].data) = 2 /\ frames[i].data[1] = \h00

----------------------------------------------------------------------------
(* C1: every show() sends the six address-window command frames 0x21, 0x00, *)
(* W-1, 0x22, 0x00, P-1 and then one data frame, 0x40 followed by the W*P  *)
(* bytes of the frame buffer as they are at the call; init(128,64,0x3C),   *)
(* clear(), show() sends 6 command bytes, one 0x40 and 1024 zero bytes.    *)

IsScenarioC1 ==
  /\ Len(calls) = 3
  /\ calls[1].op = "init" /\ calls[1].args[1] = 128 /\ calls[1].args[2] = 64
  /\ calls[1].args[3] = \h3C
  /\ calls[2].op = "clear"
  /\ calls[3].op = "show"

C1_ShowFrames ==
  (calls # <<>> /\ LastCall.op = "show") =>
    LET W == dev.width
        P == dev.height \div 8
        fr == LastFrames
        window == <<\h21, \h00, W - 1, \h22, \h00, P - 1>>
    IN /\ Len(fr) = 7
       /\ \A i \in 1..6 : fr[i].data = <<\h00, window[i]>>
       /\ Len(fr[7].data) = 1 + W * P
       /\ fr[7].data[1] = \h40
       /\ \A i \in 0..(W * P - 1) : fr[7].data[i + 2] = buff[i]
       /\ buff = last.buff
       /\ IsScenarioC1 =>
            /\ Len(fr[7].data) = 1025
            /\ \A i \in 2..1025 : fr[7].data[i] = 0

C1_Witness == IsScenarioC1 /\ Len(LastFrames) = 7

----------------------------------------------------------------------------
(* C3: every scroll_horizontal call sends the stop command 0x2E before the *)
(* first byte of its start sequence (0x26 right, 0x27 left), so between    *)
(* two start sequences of the trace there is always a stop command.        *)

ScrollCalls == {i \in 1..Len(calls) : calls[i].op = "scroll_horiz"}
\* Where call i's start sequence begins: its first frame with 0x26 or 0x27.
StartPos(i) ==
  LET at == {k \in FramesOf(i) : bus[k].data[2] \in {\h26, \h27}}
  IN CHOOSE k \in at : \A j \in at : k <= j

C3_StopBeforeStart ==
  /\ \A i \in ScrollCalls :
       LET first == calls[i].nbus + 1 IN
       /\ IsCommandFrame(bus[first], \h2E)
       /\ StartPos(i) = first + 1
       /\ IsCommandFrame(bus[first + 1], IF calls[i].args[1] THEN \h26 ELSE \h27)
  /\ \A i, j \in ScrollCalls :
       i < j => \E k \in (StartPos(i) + 1)..(StartPos(j) - 1) :
                  IsCommandFrame(bus[k], \h2E)

C3_Witness ==
  /\ Len(calls) = 3
  /\ calls[2].op = "scroll_horiz" /\ calls[2].args = <<TRUE, 0, 7, 0>>
  /\ calls[3].op = "scroll_horiz" /\ calls[3].args = <<TRUE, 0, 7, 0>>
  /\ calls[3].nbus = calls[2].nbus + 9

----------------------------------------------------------------------------
(* C4: when the frame buffer cannot be allocated, init returns failure,    *)
(* leaves the display context as it was (no partial state) and sends       *)
(* nothing; allocation failure is the only failure init reports.           *)

FailedInit == calls # <<>> /\ LastCall.op = "init" /\ last.ret = FALSE

C4_FailedInitLeavesNoState ==
  /\ FailedInit => (dev = last.dev /\ bus = SubSeq(bus, 1, LastCall.nbus))
  /\ (calls # <<>> /\ LastCall.op = "init" /\ dev.buff = "heap") => last.ret = TRUE

----------------------------------------------------------------------------
(* C5: a successful init sends, one byte per command frame, the bring-up   *)
(* sequence and then the scroll stop 0x2E as its last byte, and no data    *)
(* frame.  As claimed the sequence starts at the mux ratio; the code sends *)
(* display-off (0xAE) first.                                               *)

SucceededInit == calls # <<>> /\ LastCall.op = "init" /\ last.ret = TRUE

\* The sequence as the claim lists it, mux ratio to display-on.
BringUp(W, H, external) ==
  << \hA8, H - 1, \hD3, \h00, \h40, \hA1, \hC8,
     \hDA, (IF W > 2 * H THEN \h02 ELSE \h12),
     \h81, \hFF, \hA4, \hA6, \hD5, \h80,
     \h8D, (IF external THEN \h10 ELSE \h14),
     \hD9, (IF external THEN \h22 ELSE \hF1),
     \hDB, \h30, \h20, \h00, \hAF >>

InitArgs == LastCall.args

\* The claim as stated.
C5_BringUpAsClaimed ==
  SucceededInit =>
    /\ AllCommandFrames(LastFrames)
    /\ CommandBytes(LastFrames) =
         BringUp(InitArgs[1], InitArgs[2], InitArgs[5]) \o <<\h2E>>

\* The claim amended: display-off (0xAE) comes first.
C5_BringUpSequence ==
  SucceededInit =>
    /\ AllCommandFrames(LastFrames)
    /\ CommandBytes(LastFrames) =
         <<\hAE>> \o BringUp(InitArgs[1], InitArgs[2], InitArgs[5]) \o <<\h2E>>
    /\ \A i \in 1..Len(LastFrames) :
         LastFrames[i].addr = InitArgs[3] /\ LastFrames[i].inst = InitArgs[4]

C5_Witness ==
  /\ SucceededInit
  /\ InitArgs[1] = 20 /\ InitArgs[2] = 8 /\ InitArgs[5] = TRUE
  /\ Len(LastFrames) = 26

----------------------------------------------------------------------------
(* Pixels of a frame buffer.                                               *)

InBuffer(d, x, y) == 0 <= x /\ x < d.width /\ 0 <= y /\ y < d.height
\* Pixel (x, y), which is inside the buffer: bit y mod 8 of byte x + W*(y div 8).
Pixel(d, m, x, y) == BitOf(m[x + d.width * (y \div 8)], y % 8)
PixelsOn(d, m) ==
  {xy \in (0..(d.width - 1)) \X (0..(d.height - 1)) : Pixel(d, m, xy[1], xy[2]) = 1}
PopCount(m) == Cardinality({ik \in (DOMAIN m) \X (0..7) : BitOf(m[ik[1]], ik[2]) = 1})
Abs(n) == IF n < 0 THEN -n ELSE n

----------------------------------------------------------------------------
(* C2: draw_pixel / clear_pixel(x, y) with x >= W or y >= H leaves the     *)
(* whole frame buffer unchanged and reports nothing; with x < W and y < H  *)
(* it sets (draw) or clears (clear) exactly bit y mod 8 of the byte at     *)
(* x + W*(y div 8) and leaves every other bit of the buffer as it was.     *)

IsPixelCall == LastCall.op \in {"draw_pixel", "clear_pixel"}

C2_PixelEffect ==
  IsPixelCall =>
    LET x == LastCall.args[1]
        y == LastCall.args[2]
        W == dev.width
        bit == IF LastCall.op = "draw_pixel" THEN 1 ELSE 0
    IN /\ last.ret = "void"
       /\ dev = last.dev
       /\ DOMAIN buff = DOMAIN last.buff
       /\ IF x >= W \/ y >= dev.height
          THEN buff = last.buff
          ELSE \A i \in DOMAIN buff : \A k \in 0..7 :
                 BitOf(buff[i], k) =
                   IF i = x + W * (y \div 8) /\ k = y % 8
                   THEN bit ELSE BitOf(last.buff[i], k)

\* A pixel of the second page is cleared in a buffer that had it set.
C2_Witness ==
  /\ LastCall.op = "clear_pixel" /\ LastCall.args = <<3, 9>>
  /\ dev.width = 4
  /\ last.buff[7] = \hFF /\ buff[7] = \hFD

----------------------------------------------------------------------------
(* C6: scroll_row_vert is a rotation of the frame buffer: N calls one way  *)
(* followed by N calls the other way give back the buffer the sequence     *)
(* started from, and every single call leaves the number of set bits of    *)
(* the buffer as it was.                                                   *)

C6_ScrollRotation ==
  /\ (Len(calls) > 1 /\ LastCall.op = "scroll_row_vert") =>
       PopCount(buff) = PopCount(last.buff)
  /\ (Len(calls) > 1 /\ NBack = NFwd) => buff = snap

\* Nine rows down and nine back up, on a panel of eight rows and on panels
\* of more, with a buffer that is neither empty nor full.
C6_Witness ==
  /\ Len(calls) > 1 /\ calls[2].args = <<TRUE>>
  /\ NFwd = 9 /\ NBack = 9
  /\ dev.height = 8
  /\ snap[0] = \h80 /\ snap[1] = \h01
  /\ buff = snap

----------------------------------------------------------------------------
(* C7: for end points inside the buffer, draw_line sets both end point     *)
(* pixels whatever the direction and slope, and its stepping loop ends at  *)
(* the end point: after as many steps as the longer of the two extents,    *)
(* with both coordinates equal to the end point's.                         *)

IsLineCall ==
  /\ LastCall.op = "draw_line"
  /\ InBuffer(dev, LastCall.args[1], LastCall.args[2])
  /\ InBuffer(dev, LastCall.args[3], LastCall.args[4])

C7_LineEndpoints ==
  IsLineCall =>
    LET x1 == LastCall.args[1]
        y1 == LastCall.args[2]
        x2 == LastCall.args[3]
        y2 == LastCall.args[4]
    IN /\ Pixel(dev, buff, x1, y1) = 1
       /\ Pixel(dev, buff, x2, y2) = 1
       /\ last.ret.x1 = x2 /\ last.ret.y1 = y2
       /\ last.ret.n = (IF Abs(x2 - x1) > Abs(y2 - y1)
                        THEN Abs(x2 - x1) ELSE Abs(y2 - y1))

\* A steep line drawn up and to the left on a cleared buffer.
C7_Witness ==
  /\ IsLineCall /\ LastCall.args = <<3, 15, 0, 0>>
  /\ PopCount(last.buff) = 0
  /\ last.ret.n = 15
  /\ Pixel(dev, buff, 0, 0) = 1 /\ Pixel(dev, buff, 3, 15) = 1

----------------------------------------------------------------------------
(* C8: on a cleared buffer, draw_line(x1,y1,x2,y2) and                     *)
(* draw_line(x2,y2,x1,y1) set the same pixels.  The code's error term is   *)
(* not symmetric: what holds is that the two pixel sets are each other's   *)
(* reflection through the midpoint of the end points, and that they are    *)
(* the same set for horizontal, vertical and 45-degree lines.              *)

IsLineOnCleared == IsLineCall /\ PopCount(last.buff) = 0

\* The buffer the same call with its end points exchanged gives.
Reversed ==
  ssd1306_draw_line(dev, last.buff, LastCall.args[3], LastCall.args[4],
                    LastCall.args[1], LastCall.args[2]).m

\* The claim as stated.
C8_SameSetEitherOrder == IsLineOnCleared => PixelsOn(dev, Reversed) = PixelsOn(dev, buff)

\* The claim amended.
C8_ReversedIsReflection ==
  IsLineOnCleared =>
    LET sx == LastCall.args[1] + LastCall.args[3]
        sy == LastCall.args[2] + LastCall.args[4]
        dx == Abs(LastCall.args[3] - LastCall.args[1])
        dy == Abs(LastCall.args[4] - LastCall.args[2])
    IN /\ PixelsOn(dev, Reversed) =
            {<<sx - xy[1], sy - xy[2]>> : xy \in PixelsOn(dev, buff)}
       /\ (dx = 0 \/ dy = 0 \/ dx = dy) => Reversed = buff

\* (0,0) to (2,1) passes through (1,1); (2,1) to (0,0) through (1,0).
C8_Witness ==
  /\ IsLineOnCleared /\ LastCall.args = <<0, 0, 2, 1>>
  /\ PixelsOn(dev, buff) = {<<0, 0>>, <<1, 1>>, <<2, 1>>}
  /\ PixelsOn(dev, Reversed) = {<<0, 0>>, <<1, 0>>, <<2, 1>>}

----------------------------------------------------------------------------
(* C9: fill_rect / clear_rect(x, y, w, h) changes exactly the pixels (i,j) *)
(* of the buffer with x <= i < x+w and y <= j < y+h, a negative origin     *)
(* included, setting (fill) or clearing (clear) them, and leaves every     *)
(* other pixel as it was.                                                  *)

IsRectCall == LastCall.op \in {"fill_rect", "clear_rect"}

RectAsClaimed(x, y, w, h) ==
  \A i \in 0..(dev.width - 1) : \A j \in 0..(dev.height - 1) :
    Pixel(dev, buff, i, j) =
      IF x <= i /\ i < x + w /\ y <= j /\ j < y + h
      THEN (IF LastCall.op = "fill_rect" THEN 1 ELSE 0)
      ELSE Pixel(dev, last.buff, i, j)

C9_RectClipped ==
  IsRectCall =>
    RectAsClaimed(LastCall.args[1], LastCall.args[2], LastCall.args[3], LastCall.args[4])

\* What the code does with a negative origin: it moves the origin to 0 and
\* keeps the whole width and height.
C9_RectShifted ==
  IsRectCall =>
    RectAsClaimed(IF LastCall.args[1] < 0 THEN 0 ELSE LastCall.args[1],
                  IF LastCall.args[2] < 0 THEN 0 ELSE LastCall.args[2],
                  LastCall.args[3], LastCall.args[4])

----------------------------------------------------------------------------
(* C10: draw_str(x, y, text, font) puts character k of the text with its   *)
(* left column at x + k*font.width: a character with a code in             *)
(* [font.first, font.first + font.count) has bit b of its column bytes     *)
(* plotted at row y + b, a character outside that range changes no pixel   *)
(* of its columns, and either way the cursor moves on by font.width.       *)

IsStrCall == LastCall.op = "draw_str"

StrAsClaimed(x, y, text, font) ==
  /\ \A k \in 1..Len(text) : \A i \in 0..(font.width - 1) :
       \A j \in 0..(dev.height - 1) :
         LET px == x + (k - 1) * font.width + i
             c == text[k]
             blitted == /\ font.first <= c /\ c < font.first + font.count
                        /\ y <= j /\ j < y + font.height
         IN InBuffer(dev, px, j) =>
              Pixel(dev, buff, px, j) =
                IF blitted
                THEN BitOf(font.data[(c - font.first) * font.width + i], j - y)
                ELSE Pixel(dev, last.buff, px, j)
  /\ text # <<>> => last.ret.x = x + Len(text) * font.width

C10_StringPlacement ==
  IsStrCall =>
    StrAsClaimed(LastCall.args[1], LastCall.args[2], LastCall.args[3], LastCall.args[4])

\* The same for the fonts whose range ends at or below code 255.
C10_NarrowFontPlacement ==
  (IsStrCall /\ LastCall.args[4].first + LastCall.args[4].count <= 255) =>
    StrAsClaimed(LastCall.args[1], LastCall.args[2], LastCall.args[3], LastCall.args[4])

----------------------------------------------------------------------------
(* C11: after draw_image(x, y, image) every source pixel (i, j) whose      *)
(* destination (x+i, y+j), taken modulo 2^16, is inside the buffer has its *)
(* source bit (byte (i + j*width) div 8, bit 7 - i mod 8) there; the other *)
(* source pixels are dropped and the buffer pixels outside the image are   *)
(* as they were.  So an image that fits is reproduced bit for bit at       *)
(* (0,0), and at y = 2^16 - k source row j >= k lands on buffer row j - k. *)

IsImageCall == LastCall.op = "draw_image"

\* The source bit of pixel (i, j), as the claim places it.
SourceBit(image, i, j) ==
  (image.data[(i + j * image.width) \div 8] \div (2 ^ (7 - (i % 8)))) % 2

C11_ImageBlit ==
  IsImageCall =>
    LET x == LastCall.args[1]
        y == LastCall.args[2]
        image == LastCall.args[3]
        cols == 0..(image.width - 1)
        rows == 0..(image.height - 1)
        Dest(i, j) == <<(x + i) % 65536, (y + j) % 65536>>
        footprint == {Dest(ij[1], ij[2]) : ij \in cols \X rows}
    IN /\ \A i \in cols : \A j \in rows :
            InBuffer(dev, Dest(i, j)[1], Dest(i, j)[2]) =>
              Pixel(dev, buff, Dest(i, j)[1], Dest(i, j)[2]) = SourceBit(image, i, j)
       /\ \A px \in 0..(dev.width - 1) : \A py \in 0..(dev.height - 1) :
            <<px, py>> \notin footprint =>
              Pixel(dev, buff, px, py) = Pixel(dev, last.buff, px, py)
       /\ (x = 0 /\ y = 0 /\ image.width <= dev.width /\ image.height <= dev.height) =>
            \A i \in cols : \A j \in rows :
              Pixel(dev, buff, i, j) = SourceBit(image, i, j)
       /\ (x = 0 /\ y > 65536 - image.height) =>
            LET k == 65536 - y IN
            \A i \in cols : \A j \in k..(image.height - 1) :
              InBuffer(dev, i, j - k) =>
                Pixel(dev, buff, i, j - k) = SourceBit(image, i, j)
       /\ last.ret = "void" /\ dev = last.dev

\* The tall image drawn three rows up on a full 16-row buffer: its rows
\* 3 to 18 fill the panel and rows 0 to 2 and 19 are dropped.
C11_Witness ==
  /\ IsImageCall
  /\ LastCall.args = <<0, 65533, Image2x20>>
  /\ dev.width = 4 /\ dev.height = 16
  /\ PopCount(last.buff) = 64
  /\ \A j \in 3..18 : \A i \in 0..1 :
       Pixel(dev, buff, i, j - 3) = SourceBit(Image2x20, i, j)
  /\ \E j \in 3..18 : Pixel(dev, buff, 0, j - 3) = 0

----------------------------------------------------------------------------
(* C12: draw_str reads no character behind the terminating NUL of its      *)
(* text, the empty text included: the highest index of the text it reads   *)
(* is the index of the terminator.                                         *)

C12_NoReadPastTerminator ==
  IsStrCall => last.ret.hi = Len(LastCall.args[3])

\* The same for the texts of at least one character.
C12_NonEmptyTextStopsAtTerminator ==
  (IsStrCall /\ LastCall.args[3] # <<>>) => last.ret.hi = Len(LastCall.args[3])

----------------------------------------------------------------------------
(* C13: what scroll_horiz puts on the transport does not depend on its     *)
(* speed argument: it is the stop 0x2E, the direction's opcode, 0x00,      *)
(* start_page & 7, the interval byte 0x00, end_page & 7, 0x00, 0xFF and    *)
(* the activation 0x2F, so two calls that differ in speed only send the    *)
(* same bytes.                                                             *)

\* The bytes call number i put on the transport, frame by frame.
BytesOf(i) ==
  LET n == (IF i < Len(calls) THEN calls[i + 1].nbus ELSE Len(bus)) - calls[i].nbus
  IN [k \in 1..n |-> bus[calls[i].nbus + k].data]

C13_SpeedIgnored ==
  /\ \A i \in ScrollCalls :
       BytesOf(i) =
         << <<\h00, \h2E>>,
            <<\h00, (IF calls[i].args[1] THEN \h26 ELSE \h27)>>,
            <<\h00, \h00>>,
            <<\h00, calls[i].args[2] % 8>>,
            <<\h00, \h00>>,
            <<\h00, calls[i].args[3] % 8>>,
            <<\h00, \h00>>,
            <<\h00, \hFF>>,
            <<\h00, \h2F>> >>
  /\ \A i, j \in ScrollCalls :
       SubSeq(calls[i].args, 1, 3) = SubSeq(calls[j].args, 1, 3) =>
         BytesOf(i) = BytesOf(j)

\* Two calls that scroll the pages 9 to 10 to the left, at speed 0 and at
\* speed 7.
C13_Witness ==
  /\ Len(calls) = 3
  /\ calls[2].op = "scroll_horiz" /\ calls[2].args = <<FALSE, 9, 10, 0>>
  /\ calls[3].op = "scroll_horiz" /\ calls[3].args = <<FALSE, 9, 10, 7>>
  /\ BytesOf(2) = BytesOf(3)
  /\ BytesOf(3)[5] = <<\h00, \h00>>

====
